---- MODULE Spec2Model ----
(***************************************************************************)
(* Model of isciml.py: the Mesh, MagneticProperties and                    *)
(* MagneticAdjointSolver classes and the isciml() entry point.             *)
(*                                                                         *)
(* Numbers.  A float64 value is modelled as an exact rational <<n, d>> in  *)
(* lowest terms (d > 0); on the inputs used here (small integers) every    *)
(* float64 operation of the source is exact or correctly rounded from an   *)
(* exact value, so the only rounding that is modelled is the one the       *)
(* source asks for explicitly: the conversion to float32 (F32).            *)
(* Arrays are sequences; the source's 0-based index i is position i + 1.   *)
(* An attribute that a Python object may lack is an option: <<>> when the  *)
(* attribute is absent, <<v>> when it holds v.                             *)
(***************************************************************************)
EXTENDS Integers, Sequences, FiniteSets, TLC

(***************************************************************************)
(* Bounds of the model.  The three capacities stand for the literals       *)
(* 10000000 (cell and node buffers) and 1000000 (observation buffer) of    *)
(* solve; the model keeps their role and scales their size.                *)
(***************************************************************************)
CellCapacity ==
  3
NodeCapacity ==
  5
ObsCapacity ==
  2
MaxSolves ==
  2

----------------------------------------------------------------------------
(* Rational arithmetic *)

Abs(n) ==
  IF n < 0 THEN -n ELSE n

RECURSIVE GCD(_, _)
GCD(a, b) ==
  IF b = 0 THEN a ELSE GCD(b, a % b)

Rat(n, d) ==
  IF d = 1 THEN <<n, 1>>
  ELSE LET s == IF d < 0 THEN -1 ELSE 1
           g == GCD(Abs(n), Abs(d))
       IN  <<(s * n) \div g, (s * d) \div g>>

R(n) ==
  <<n, 1>>

RAdd(x, y) ==
  Rat(x[1] * y[2] + y[1] * x[2], x[2] * y[2])

RSub(x, y) ==
  Rat(x[1] * y[2] - y[1] * x[2], x[2] * y[2])

RMul(x, y) ==
  Rat(x[1] * y[1], x[2] * y[2])

RDiv(x, y) ==
  Rat(x[1] * y[2], x[2] * y[1])

RAbs(x) ==
  <<Abs(x[1]), x[2]>>

RNonNeg(x) ==
  x[1] >= 0

(* numpy.sqrt on the squares the model draws its field vectors from *)
RECURSIVE IsqrtFrom(_, _)
IsqrtFrom(n, k) ==
  IF (k + 1) * (k + 1) > n THEN k ELSE IsqrtFrom(n, k + 1)

RSqrt(x) ==
  Rat(IsqrtFrom(x[1], 0), IsqrtFrom(x[2], 0))

RECURSIVE IsPow2(_)
IsPow2(d) ==
  d = 1 \/ (d > 1 /\ d % 2 = 0 /\ IsPow2(d \div 2))

(* a \div b rounded to nearest, ties to even (a >= 0, b > 0) *)
RoundHalfEven(a, b) ==
  LET q == a \div b
      r == a % b
  IN  IF 2 * r < b THEN q
      ELSE IF 2 * r > b THEN q + 1
      ELSE IF q % 2 = 0 THEN q ELSE q + 1

RECURSIVE ScaleUp(_, _, _)
ScaleUp(a, d, k) ==
  IF a * (2^k) >= d * (2^23) THEN k ELSE ScaleUp(a, d, k + 1)

RECURSIVE ScaleDown(_, _, _)
ScaleDown(a, d, e) ==
  IF a \div (2^e) < d * (2^24) THEN e ELSE ScaleDown(a, d, e + 1)

(***************************************************************************)
(* numpy.float32(x), and the cast an assignment into a float32 buffer      *)
(* makes: x rounded to a 24-bit significand, ties to even (normal range).  *)
(***************************************************************************)
F32(x) ==
  LET a == Abs(x[1])
      d == x[2]
      s == IF x[1] < 0 THEN -1 ELSE 1
  IN  IF a = 0 THEN x
      ELSE IF a < 2^24 /\ IsPow2(d) THEN x
      ELSE IF a < d * (2^23)
        THEN LET k == ScaleUp(a, d, 0)
             IN  Rat(s * RoundHalfEven(a * (2^k), d), 2^k)
        ELSE LET e == ScaleDown(a, d, 0)
             IN  Rat(s * RoundHalfEven(a, d * (2^e)) * (2^e), 1)

----------------------------------------------------------------------------
(* Options, errors and numpy arrays *)

None ==
  <<>>

Some(v) ==
  <<v>>

IsSome(o) ==
  Len(o) = 1

Min(a, b) ==
  IF a < b THEN a ELSE b

NoError ==
  [type |-> "none", text |-> "", path |-> ""]

(* raise ValueError("<text> %s ..." % path) and the errors Python raises itself *)
Error(type, text, path) ==
  [type |-> type, text |-> text, path |-> path]

(* numpy.zeros((n)), numpy.zeros((n, c)) *)
Zeros(n, zero) ==
  [i \in 1..n |-> zero]

ZeroRow(c, zero) ==
  [j \in 1..c |-> zero]

(* the length of buf[0:n] *)
SliceLen(buf, n) ==
  Min(n, Len(buf))

(* an assignment that takes a longer source and drops its excess rows *)
CanAssignDropping(buf, n, src) ==
  Len(src) >= SliceLen(buf, n) \/ Len(src) = 1

(***************************************************************************)
(* buf[0:n] = src.  numpy accepts the assignment when src has as many rows *)
(* as the slice, or one row (which it broadcasts), and raises ValueError   *)
(* ("could not broadcast input array") otherwise.  The slice is clipped to *)
(* the buffer, so a source longer than the buffer is refused, not cut.     *)
(***************************************************************************)

CanAssign(buf, n, src) ==
  Len(src) = SliceLen(buf, n) \/ Len(src) = 1

AssignSlice(buf, n, src) ==
  [i \in 1..Len(buf) |->
     IF i <= SliceLen(buf, n)
       THEN IF Len(src) = 1 THEN src[1] ELSE src[i]
       ELSE buf[i]]

(* numpy.float32 of an array, by rows *)
F32Seq(a) ==
  [i \in 1..Len(a) |-> F32(a[i])]

F32Rows(a) ==
  [i \in 1..Len(a) |-> F32Seq(a[i])]

----------------------------------------------------------------------------
(* The files the model's runs can name *)

P000 == <<0, 0, 0>>
P100 == <<1, 0, 0>>
P010 == <<0, 1, 0>>
P001 == <<0, 0, 1>>
P110 == <<1, 1, 0>>
P230 == <<2, 3, 0>>
P004 == <<0, 0, 4>>

RepeatCells(n) ==
  [i \in 1..n |-> IF i % 2 = 1 THEN <<0, 1, 2, 3>> ELSE <<1, 0, 2, 4>>]

VtkFile(points, cells) ==
  [exists |-> TRUE, readable |-> TRUE, points |-> points, cells |-> cells]

VtkFiles ==
  [p \in {"unit.vtk", "flat.vtk", "big.vtk", "nocells.vtk",
          "badindex.vtk", "full.vtk", "over.vtk", "corrupt.vtk", "missing.vtk"} |->
     CASE p = "unit.vtk" ->
            VtkFile(<<P000, P100, P010, P001>>, <<<<0, 1, 2, 3>>>>)
       [] p = "flat.vtk" ->
            VtkFile(<<P000, P100, P010, P001, P110>>,
                    <<<<0, 1, 2, 4>>, <<1, 0, 2, 3>>>>)
       [] p = "big.vtk" ->
            VtkFile(<<P000, P230, P010, P004, P110>>,
                    <<<<0, 1, 2, 3>>, <<4, 3, 1, 0>>>>)
       [] p = "nocells.vtk" ->
            VtkFile(<<P000, P100, P010, P001>>, <<>>)
       [] p = "badindex.vtk" ->
            VtkFile(<<P000, P100, P010, P001>>, <<<<0, 1, 2, 4>>>>)
       [] p = "full.vtk" ->
            VtkFile(<<P000, P100, P010, P001, P110>>, RepeatCells(CellCapacity))
       [] p = "over.vtk" ->
            VtkFile(<<P000, P100, P010, P001, P110>>, RepeatCells(CellCapacity + 1))
       [] p = "corrupt.vtk" ->
            [exists |-> TRUE, readable |-> FALSE, points |-> <<>>, cells |-> <<>>]
       [] OTHER ->
            [exists |-> FALSE, readable |-> FALSE, points |-> <<>>, cells |-> <<>>]]

----------------------------------------------------------------------------
(* class Mesh *)

RPoint(p) ==
  [j \in 1..Len(p) |-> R(p[j])]

(* Mesh.__init__ *)
Mesh(vtk_file_name) ==
  LET f == VtkFiles[vtk_file_name]
  IN  IF ~f.exists
        THEN [raised |-> TRUE, obj |-> None,
              err |-> Error("ValueError", "VTK file %s does not exist", vtk_file_name)]
      ELSE IF ~f.readable
        THEN [raised |-> TRUE, obj |-> None,
              err |-> Error("ValueError", "pv.read", "")]
      ELSE [raised |-> FALSE, err |-> NoError,
            obj |-> Some([vtk_file_name |-> vtk_file_name,
                          npts |-> Len(f.points),
                          ncells |-> Len(f.cells),
                          nodes |-> [i \in 1..Len(f.points) |-> RPoint(f.points[i])],
                          tet_nodes |-> f.cells,
                          centroids |-> None,
                          volumes |-> None])]

(* numpy indexing nodes[n, :]: a negative n counts from the end *)
ValidIndex(nodes, n) ==
  -Len(nodes) <= n /\ n < Len(nodes)

NodeAt(nodes, n) ==
  IF n < 0 THEN nodes[Len(nodes) + n + 1] ELSE nodes[n + 1]

AllIndicesValid(self) ==
  \A i \in 1..Len(self.tet_nodes) :
    \A j \in 1..4 : ValidIndex(self.nodes, self.tet_nodes[i][j])

Centroid(nodes, tet) ==
  [c \in 1..3 |->
     RDiv(RAdd(RAdd(RAdd(NodeAt(nodes, tet[1])[c], NodeAt(nodes, tet[2])[c]),
                    NodeAt(nodes, tet[3])[c]),
               NodeAt(nodes, tet[4])[c]),
          R(4))]

(* Mesh.get_centroids *)
get_centroids(self) ==
  IF ~AllIndicesValid(self)
    THEN [raised |-> TRUE, self |-> self, err |-> Error("IndexError", "index out of bounds", "")]
    ELSE [raised |-> FALSE, err |-> NoError,
          self |-> [self EXCEPT !.centroids =
                      Some([i \in 1..Len(self.tet_nodes) |->
                              Centroid(self.nodes, self.tet_nodes[i])])]]

(* the loop body of get_volumes: pv, then vot[itet] = np.abs(pv / 6.0) *)
SignedTetVolume(nodes, tet) ==
  LET p1 == NodeAt(nodes, tet[1])
      p2 == NodeAt(nodes, tet[2])
      p3 == NodeAt(nodes, tet[3])
      p4 == NodeAt(nodes, tet[4])
      x1 == p1[1]  y1 == p1[2]  z1 == p1[3]
      x2 == p2[1]  y2 == p2[2]  z2 == p2[3]
      x3 == p3[1]  y3 == p3[2]  z3 == p3[3]
      x4 == p4[1]  y4 == p4[2]  z4 == p4[3]
      pv == RAdd(RAdd(
              RMul(RSub(x4, x1), RSub(RMul(RSub(y2, y1), RSub(z3, z1)),
                                      RMul(RSub(z2, z1), RSub(y3, y1)))),
              RMul(RSub(y4, y1), RSub(RMul(RSub(z2, z1), RSub(x3, x1)),
                                      RMul(RSub(x2, x1), RSub(z3, z1))))),
              RMul(RSub(z4, z1), RSub(RMul(RSub(x2, x1), RSub(y3, y1)),
                                      RMul(RSub(y2, y1), RSub(x3, x1)))))
  IN  RDiv(pv, R(6))

(* the volume without np.abs *)
TetVolumeSigned(nodes, tet) ==
  SignedTetVolume(nodes, tet)

(* vot[itet] = np.abs(pv / 6.0) *)
TetVolume(nodes, tet) ==
  RAbs(SignedTetVolume(nodes, tet))

(* Mesh.get_volumes *)
get_volumes(self) ==
  IF ~AllIndicesValid(self)
    THEN [raised |-> TRUE, self |-> self, err |-> Error("IndexError", "index out of bounds", "")]
    ELSE [raised |-> FALSE, err |-> NoError,
          self |-> [self EXCEPT !.volumes =
                      Some([i \in 1..Len(self.tet_nodes) |->
                              TetVolume(self.nodes, self.tet_nodes[i])])]]

----------------------------------------------------------------------------
(* class MagneticProperties *)

(* a numpy array: its shape, and its data by rows (by elements when 1-D) *)
Array(shape, data) ==
  [shape |-> shape, data |-> data]

NpyFile(array) ==
  [exists |-> TRUE, readable |-> TRUE, array |-> array]

(* the entry of row i (from 1), column j (from 0) of a table of the model *)
Entry(base, i, j) ==
  R(base + 10 * i + j)

Vector(n) ==
  Array(<<n>>, [i \in 1..n |-> Entry(0, i, 0)])

Table(n, c, base) ==
  Array(<<n, c>>, [i \in 1..n |-> [j \in 1..c |-> Entry(base, i, j - 1)]])

NpyFiles ==
  [p \in {"scalar.npy", "v0.npy", "v1.npy", "vcap.npy",
          "m2x0.npy", "m2x1.npy", "m2x2.npy", "m2x3.npy", "m2x4.npy", "m2x5.npy",
          "m0x4.npy", "m1x4.npy", "mcapx4.npy", "moverx4.npy",
          "huge2x4.npy", "corrupt.npy", "missing.npy"} |->
     CASE p = "scalar.npy" -> NpyFile(Array(<<>>, R(7)))
       [] p = "v0.npy" -> NpyFile(Vector(0))
       [] p = "v1.npy" -> NpyFile(Vector(1))
       [] p = "vcap.npy" -> NpyFile(Vector(CellCapacity))
       [] p = "m2x0.npy" -> NpyFile(Table(2, 0, 0))
       [] p = "m2x1.npy" -> NpyFile(Table(2, 1, 0))
       [] p = "m2x2.npy" -> NpyFile(Table(2, 2, 0))
       [] p = "m2x3.npy" -> NpyFile(Table(2, 3, 0))
       [] p = "m2x4.npy" -> NpyFile(Table(2, 4, 0))
       [] p = "m2x5.npy" -> NpyFile(Table(2, 5, 0))
       [] p = "m0x4.npy" -> NpyFile(Table(0, 4, 0))
       [] p = "m1x4.npy" -> NpyFile(Table(1, 4, 0))
       [] p = "mcapx4.npy" -> NpyFile(Table(CellCapacity, 4, 0))
       [] p = "moverx4.npy" -> NpyFile(Table(CellCapacity + 1, 4, 0))
       [] p = "huge2x4.npy" -> NpyFile(Table(2, 4, 2^24 - 10))
       [] p = "corrupt.npy" -> [exists |-> TRUE, readable |-> FALSE, array |-> Array(<<>>, R(0))]
       [] OTHER -> [exists |-> FALSE, readable |-> FALSE, array |-> Array(<<>>, R(0))]]

(* np.expand_dims(a, axis=1) of a 1-D array *)
ExpandDims(a) ==
  Array(<<a.shape[1], 1>>, [i \in 1..a.shape[1] |-> <<a.data[i]>>])

(* a[:, j] of a 2-D array *)
Column(a, j) ==
  [i \in 1..a.shape[1] |-> a.data[i][j + 1]]

(* the default kept as one value, not repeated per row *)
FullOfOne(n, v) ==
  <<v>>

(* np.full((n,), v) *)
Full(n, v) ==
  [i \in 1..n |-> v]

(* MagneticProperties.__init__ *)
MagneticProperties(file_name, kx, ky, kz) ==
  LET f == NpyFiles[file_name]
      loaded == f.array
      properties == IF Len(loaded.shape) = 1 THEN ExpandDims(loaded) ELSE loaded
      n_cells == loaded.shape[1]
  IN  IF ~f.exists
        THEN [raised |-> TRUE, obj |-> None,
              err |-> Error("ValueError", "File %s does not exist", file_name)]
      ELSE IF ~f.readable
        THEN [raised |-> TRUE, obj |-> None,
              err |-> Error("ValueError", "np.load", "")]
      ELSE IF ~(Len(loaded.shape) > 0)
        THEN [raised |-> TRUE, obj |-> None,
              err |-> Error("ValueError", "Magnetic properties file %s is incorrect",
                            file_name)]
      ELSE [raised |-> FALSE, err |-> NoError,
            obj |-> Some(
              [file_name |-> file_name,
               properties |-> properties,
               n_cells |-> n_cells,
               susceptibility |-> IF properties.shape[2] > 0
                                    THEN Some(Column(properties, 0)) ELSE None,
               kx |-> IF properties.shape[2] > 1
                        THEN Column(properties, 1) ELSE Full(n_cells, kx),
               ky |-> IF properties.shape[2] > 2
                        THEN Column(properties, 2) ELSE Full(n_cells, ky),
               kz |-> IF properties.shape[2] > 3
                        THEN Column(properties, 3) ELSE Full(n_cells, kz)])]

----------------------------------------------------------------------------
(* class MagneticAdjointSolver *)

CsvFile(n, c) ==
  [exists |-> TRUE, readable |-> TRUE, table |-> Table(n, c, 100)]

CsvFiles ==
  [p \in {"rx1.csv", "rxcapx4.csv", "rxover.csv", "corrupt.csv",
          "missing.csv"} |->
     CASE p = "rx1.csv" -> CsvFile(1, 3)
       [] p = "rxcapx4.csv" -> CsvFile(ObsCapacity, 4)
       [] p = "rxover.csv" -> CsvFile(ObsCapacity + 1, 3)
       [] p = "corrupt.csv" -> [exists |-> TRUE, readable |-> FALSE, table |-> Table(0, 0, 0)]
       [] OTHER -> [exists |-> FALSE, readable |-> FALSE, table |-> Table(0, 0, 0)]]

(* MagneticAdjointSolver.__init__ *)
MagneticAdjointSolver(reciever_file_name, Bx, By, Bz) ==
  LET f == CsvFiles[reciever_file_name]
      Bv == RSqrt(RAdd(RAdd(RMul(Bx, Bx), RMul(By, By)), RMul(Bz, Bz)))
  IN  IF ~f.exists
        THEN [raised |-> TRUE, obj |-> None,
              err |-> Error("ValueError", "File %s does not exist", reciever_file_name)]
      ELSE IF ~f.readable
        THEN [raised |-> TRUE, obj |-> None,
              err |-> Error("ValueError", "pd.read_csv", "")]
      ELSE [raised |-> FALSE, err |-> NoError,
            obj |-> Some([reciever_file_name |-> reciever_file_name,
                          receiver_locations |-> f.table,
                          Bx |-> Bx, By |-> By, Bz |-> Bz,
                          Bv |-> Bv,
                          LX |-> F32(RDiv(Bx, Bv)),
                          LY |-> F32(RDiv(By, Bv)),
                          LZ |-> F32(RDiv(Bz, Bv))])]

----------------------------------------------------------------------------
(* MagneticAdjointSolver.solve *)

(* the connectivity copied as it is, 0-based *)
ShiftTetsByZero(tet_nodes) ==
  tet_nodes

(* mesh.tet_nodes + 1: a new array, the mesh's own is not written *)
ShiftTets(tet_nodes) ==
  [i \in 1..Len(tet_nodes) |-> [j \in 1..Len(tet_nodes[i]) |-> tet_nodes[i][j] + 1]]

(* rx_loc[:, 0:3] *)
FirstColumns(table, c) ==
  [i \in 1..table.shape[1] |-> SubSeq(table.data[i], 1, Min(c, table.shape[2]))]

(* the scaling left out *)
ScaleSkipped(rho_sus, Bv, promotion) ==
  rho_sus

(***************************************************************************)
(* rho_sus = rho_sus * self.Bv, rho_sus a float32 array and Bv a           *)
(* numpy.float64 scalar.  What numpy computes depends on its promotion     *)
(* rules: with value-based casting (numpy 1.x) the scalar is taken as      *)
(* float32 and the product is a float32; with NEP 50 (numpy 2.x) the       *)
(* product is a float64.                                                   *)
(***************************************************************************)
ScaleByBv(rho_sus, Bv, promotion) ==
  [i \in 1..Len(rho_sus) |->
     IF promotion = "legacy"
       THEN F32(RMul(rho_sus[i], F32(Bv)))
       ELSE RMul(rho_sus[i], Bv)]

(* the kernel's whole buffer returned *)
TruncateToBuffer(mig_data, ncells) ==
  mig_data

(* mig_data[0 : mesh.ncells] *)
Truncate(mig_data, ncells) ==
  SubSeq(mig_data, 1, Min(ncells, Len(mig_data)))

Raise(type, text) ==
  [raised |-> TRUE, err |-> Error(type, text, ""), calls |-> <<>>, ret |-> None]

(***************************************************************************)
(* The body of solve.  mig_data is what calc_and_mig_field returns, which  *)
(* the source does not define.  calls lists the kernel invocations made,   *)
(* each with the arguments in the order of the call.                       *)
(***************************************************************************)
solve_body(self, mesh, magnetic_properties, mig_data, promotion) ==
  LET zeros1 == Zeros(CellCapacity, R(0))
      zeros3 == Zeros(CellCapacity, ZeroRow(3, R(0)))
      zerosN == Zeros(NodeCapacity, ZeroRow(3, R(0)))
      zerosT == Zeros(CellCapacity, ZeroRow(4, 0))
      zerosO == Zeros(ObsCapacity, ZeroRow(3, R(0)))
      n == mesh.ncells
      sus == F32Seq(magnetic_properties.susceptibility[1])
      kx == F32Seq(magnetic_properties.kx)
      ky == F32Seq(magnetic_properties.ky)
      kz == F32Seq(magnetic_properties.kz)
      cen == F32Rows(mesh.centroids[1])
      vol == F32Seq(mesh.volumes[1])
      nod == F32Rows(mesh.nodes)
      tet == ShiftTets(mesh.tet_nodes)
      n_obs == self.receiver_locations.shape[1]
      rx == F32Rows(FirstColumns(self.receiver_locations, 3))
      rxcols == Min(3, self.receiver_locations.shape[2])
      obs == [i \in 1..Len(rx) |-> IF rxcols = 1 THEN <<rx[i][1], rx[i][1], rx[i][1]>>
                                                  ELSE rx[i]]
  IN  IF ~IsSome(magnetic_properties.susceptibility)
        THEN Raise("AttributeError", "susceptibility")
      ELSE IF ~CanAssign(zeros1, n, sus) THEN Raise("ValueError", "could not broadcast")
      ELSE IF ~CanAssign(zeros1, n, kx) THEN Raise("ValueError", "could not broadcast")
      ELSE IF ~CanAssign(zeros1, n, ky) THEN Raise("ValueError", "could not broadcast")
      ELSE IF ~CanAssign(zeros1, n, kz) THEN Raise("ValueError", "could not broadcast")
      ELSE IF ~IsSome(mesh.centroids) THEN Raise("AttributeError", "centroids")
      ELSE IF ~CanAssign(zeros3, n, cen) THEN Raise("ValueError", "could not broadcast")
      ELSE IF ~IsSome(mesh.volumes) THEN Raise("AttributeError", "volumes")
      ELSE IF ~CanAssign(zeros1, n, vol) THEN Raise("ValueError", "could not broadcast")
      ELSE IF ~CanAssign(zerosN, mesh.npts, nod)
        THEN Raise("ValueError", "could not broadcast")
      ELSE IF ~CanAssign(zerosT, n, tet) THEN Raise("ValueError", "could not broadcast")
      ELSE IF ~(rxcols \in {1, 3} /\ CanAssign(zerosO, n_obs, obs))
        THEN Raise("ValueError", "could not broadcast")
      ELSE [raised |-> FALSE, err |-> NoError,
            calls |-> <<[rho_sus |-> ScaleByBv(AssignSlice(zeros1, n, sus), self.Bv,
                                               promotion),
                         ismag |-> TRUE,
                         istensor |-> FALSE,
                         KXt |-> AssignSlice(zeros1, n, kx),
                         KYt |-> AssignSlice(zeros1, n, ky),
                         KZt |-> AssignSlice(zeros1, n, kz),
                         LX |-> self.LX, LY |-> self.LY, LZ |-> self.LZ,
                         nodes |-> AssignSlice(zerosN, mesh.npts, nod),
                         tets |-> AssignSlice(zerosT, n, tet),
                         ncells |-> n,
                         obs_pts |-> AssignSlice(zerosO, n_obs, obs),
                         n_obs |-> n_obs,
                         ctet |-> AssignSlice(zeros3, n, cen),
                         vtet |-> AssignSlice(zeros1, n, vol)]>>,
            ret |-> Some(Truncate(mig_data, n))]

(* solve writes the tetrahedron array of the mesh in place (tet_nodes += 1) *)
solve_shifting_in_place(self, mesh, magnetic_properties, mig_data, promotion) ==
  [result |-> solve_body(self, mesh, magnetic_properties, mig_data, promotion),
   self |-> self,
   mesh |-> [mesh EXCEPT !.tet_nodes = ShiftTets(mesh.tet_nodes)],
   magnetic_properties |-> magnetic_properties]

(* solve: its result, and its three objects as it leaves them (unchanged) *)
solve(self, mesh, magnetic_properties, mig_data, promotion) ==
  [result |-> solve_body(self, mesh, magnetic_properties, mig_data, promotion),
   self |-> self,
   mesh |-> mesh,
   magnetic_properties |-> magnetic_properties]

----------------------------------------------------------------------------------------------------------------------------------------
(* The state: the three objects, how each was constructed, what the last   *)
(* method call did, the kernel's invocations so far, and the position of   *)
(* isciml()                                                                *)

VARIABLES mesh, props, solver, meshCall, propsCall, solverCall, last,
          kernelCalls, output, promotion, pc, configFile, config, trace

objects ==
  <<mesh, props, solver, meshCall, propsCall, solverCall>>

vars ==
  <<mesh, props, solver, meshCall, propsCall, solverCall, last,
    kernelCalls, output, promotion, pc, configFile, config, trace>>

(* the defaults kx = ky = kz = 1.0 of MagneticProperties, which isciml() uses *)
DefaultK ==
  <<R(1), R(1), R(1)>>

(* the defaults a caller passes: three values no table of the model holds *)
KDefaults ==
  {<<R(2), R(3), R(5)>>}

(***************************************************************************)
(* Ambient fields with an integer magnitude (3 and 7).  The source's       *)
(* default (4594.8, 19887.1, 41568.2) has an irrational magnitude, which   *)
(* the exact arithmetic of the model cannot hold; isciml() is run with     *)
(* each of these instead.                                                  *)
(***************************************************************************)
BFields ==
  {<<R(1), R(2), R(2)>>, <<R(2), R(3), R(6)>>}

(* buffers calc_and_mig_field may return *)
KernelReturns ==
  {[i \in 1..CellCapacity |-> R(i)], [i \in 1..CellCapacity |-> R(50 - i)]}

Promotions ==
  {"legacy", "nep50"}

Called(op, args, r) ==
  [op |-> op, args |-> args, raised |-> r.raised, err |-> r.err]

NoCall ==
  [op |-> "none", args |-> <<>>, raised |-> FALSE, err |-> NoError]

InitObjects ==
  /\ mesh = None
  /\ props = None
  /\ solver = None
  /\ meshCall = NoCall
  /\ propsCall = NoCall
  /\ solverCall = NoCall
  /\ last = NoCall
  /\ kernelCalls = <<>>
  /\ output = None
  /\ promotion \in Promotions
  /\ trace = <<>>
  /\ config = None

(* the objects used from a caller's code, in any order *)
Init ==
  /\ InitObjects
  /\ pc = "caller"
  /\ configFile = [exists |-> FALSE, readable |-> FALSE, content |-> <<>>]

NewMesh ==
  /\ pc = "caller"
  /\ meshCall = NoCall
  /\ \E path \in DOMAIN VtkFiles :
       LET r == Mesh(path)
       IN  /\ mesh' = r.obj
           /\ meshCall' = Called("Mesh", <<path>>, r)
  /\ UNCHANGED <<props, solver, propsCall, solverCall, last, kernelCalls, output,
                 promotion, pc, configFile, config, trace>>

GetCentroids ==
  /\ pc = "caller"
  /\ IsSome(mesh)
  /\ LET r == get_centroids(mesh[1])
     IN  /\ mesh' = Some(r.self)
         /\ last' = Called("get_centroids", <<>>, r)
  /\ UNCHANGED <<props, solver, meshCall, propsCall, solverCall, kernelCalls, output,
                 promotion, pc, configFile, config, trace>>

GetVolumes ==
  /\ pc = "caller"
  /\ IsSome(mesh)
  /\ LET r == get_volumes(mesh[1])
     IN  /\ mesh' = Some(r.self)
         /\ last' = Called("get_volumes", <<>>, r)
  /\ UNCHANGED <<props, solver, meshCall, propsCall, solverCall, kernelCalls, output,
                 promotion, pc, configFile, config, trace>>

NewProperties ==
  /\ pc = "caller"
  /\ propsCall = NoCall
  /\ \E path \in DOMAIN NpyFiles, k \in KDefaults :
       LET r == MagneticProperties(path, k[1], k[2], k[3])
       IN  /\ props' = r.obj
           /\ propsCall' = Called("MagneticProperties", <<path, k[1], k[2], k[3]>>, r)
  /\ UNCHANGED <<mesh, solver, meshCall, solverCall, last, kernelCalls, output,
                 promotion, pc, configFile, config, trace>>

NewSolver ==
  /\ pc = "caller"
  /\ solverCall = NoCall
  /\ \E path \in DOMAIN CsvFiles, B \in BFields :
       LET r == MagneticAdjointSolver(path, B[1], B[2], B[3])
       IN  /\ solver' = r.obj
           /\ solverCall' = Called("MagneticAdjointSolver", <<path, B[1], B[2], B[3]>>, r)
  /\ UNCHANGED <<mesh, props, meshCall, propsCall, last, kernelCalls, output,
                 promotion, pc, configFile, config, trace>>

Solve ==
  /\ pc = "caller"
  /\ IsSome(mesh) /\ IsSome(props) /\ IsSome(solver)
  /\ Len(kernelCalls) < MaxSolves
  /\ \E mig_data \in KernelReturns :
       LET r == solve(solver[1], mesh[1], props[1], mig_data, promotion)
       IN  /\ mesh' = Some(r.mesh)
           /\ props' = Some(r.magnetic_properties)
           /\ solver' = Some(r.self)
           /\ kernelCalls' = kernelCalls \o r.result.calls
           /\ output' = r.result.ret
           /\ last' = Called("solve", <<mig_data>>, r.result)
  /\ UNCHANGED <<meshCall, propsCall, solverCall, promotion, pc, configFile, config,
                 trace>>

Next ==
  \/ NewMesh
  \/ GetCentroids
  \/ GetVolumes
  \/ NewProperties
  \/ NewSolver
  \/ Solve

Spec ==
  Init /\ [][Next]_vars

----------------------------------------------------------------------------
(* isciml(config_file): one run of the command, statement by statement *)

ConfigPath ==
  "config.yaml"

(* what yaml.safe_load may return: the three keys, or the receiver key missing *)
ConfigContents ==
  [vtk_file : DOMAIN VtkFiles,
   magnetic_properties_file : DOMAIN NpyFiles,
   receiver_locations_file : DOMAIN CsvFiles]
  \cup [vtk_file : {"unit.vtk"}, magnetic_properties_file : {"v1.npy"}]

ConfigFiles ==
  {[exists |-> FALSE, readable |-> FALSE, content |-> <<>>],
   [exists |-> TRUE, readable |-> FALSE, content |-> <<>>]}
  \cup {[exists |-> TRUE, readable |-> TRUE, content |-> c] : c \in ConfigContents}

InitIsciml ==
  /\ InitObjects
  /\ pc = "config"
  /\ configFile \in ConfigFiles

(* the statement after each statement of isciml, a statement named by its call *)
NextStatement(at) ==
  CASE at = "config" -> "Mesh"
    [] at = "Mesh" -> "get_centroids"
    [] at = "get_centroids" -> "get_volumes"
    [] at = "get_volumes" -> "MagneticProperties"
    [] at = "MagneticProperties" -> "MagneticAdjointSolver"
    [] at = "MagneticAdjointSolver" -> "solve"
    [] at = "solve" -> "done"

(* the exception logged and swallowed, the run going on *)
StepPcSwallowing(at, raised) ==
  NextStatement(at)

(* an exception ends the run; nothing in isciml catches what its calls raise *)
StepPc(at, raised) ==
  IF raised THEN "failed" ELSE NextStatement(at)

Completed(tr, op, raised) ==
  IF raised THEN tr ELSE Append(tr, op)

(* config[key] *)
KeyError(key) ==
  [raised |-> TRUE, err |-> Error("KeyError", key, ""), obj |-> None]

IscimlConfig ==
  /\ pc = "config"
  /\ LET r == IF ~configFile.exists
                THEN [raised |-> TRUE, obj |-> None,
                      err |-> Error("ValueError", "File %s doesn't exist", ConfigPath)]
              ELSE IF ~configFile.readable
                THEN [raised |-> TRUE, obj |-> None,
                      err |-> Error("ValueError", "yaml.safe_load", "")]
              ELSE [raised |-> FALSE, err |-> NoError, obj |-> Some(configFile.content)]
     IN  /\ config' = r.obj
         /\ last' = Called("config", <<ConfigPath>>, r)
         /\ pc' = StepPc(pc, r.raised)
         /\ trace' = Completed(trace, "config", r.raised)
  /\ UNCHANGED <<objects, kernelCalls, output, promotion, configFile>>

IscimlMesh ==
  /\ pc = "Mesh"
  /\ LET r == IF "vtk_file" \in DOMAIN config[1]
                THEN Mesh(config[1].vtk_file) ELSE KeyError("vtk_file")
     IN  /\ mesh' = r.obj
         /\ meshCall' = Called("Mesh", <<>>, r)
         /\ last' = Called("Mesh", <<>>, r)
         /\ pc' = StepPc(pc, r.raised)
         /\ trace' = Completed(trace, "Mesh", r.raised)
  /\ UNCHANGED <<props, solver, propsCall, solverCall, kernelCalls, output, promotion,
                 configFile, config>>

IscimlCentroids ==
  /\ pc = "get_centroids"
  /\ LET r == get_centroids(mesh[1])
     IN  /\ mesh' = Some(r.self)
         /\ last' = Called("get_centroids", <<>>, r)
         /\ pc' = StepPc(pc, r.raised)
         /\ trace' = Completed(trace, "get_centroids", r.raised)
  /\ UNCHANGED <<props, solver, meshCall, propsCall, solverCall, kernelCalls, output,
                 promotion, configFile, config>>

IscimlVolumes ==
  /\ pc = "get_volumes"
  /\ LET r == get_volumes(mesh[1])
     IN  /\ mesh' = Some(r.self)
         /\ last' = Called("get_volumes", <<>>, r)
         /\ pc' = StepPc(pc, r.raised)
         /\ trace' = Completed(trace, "get_volumes", r.raised)
  /\ UNCHANGED <<props, solver, meshCall, propsCall, solverCall, kernelCalls, output,
                 promotion, configFile, config>>

IscimlProperties ==
  /\ pc = "MagneticProperties"
  /\ LET r == IF "magnetic_properties_file" \in DOMAIN config[1]
                THEN MagneticProperties(config[1].magnetic_properties_file,
                                        DefaultK[1], DefaultK[2], DefaultK[3])
                ELSE KeyError("magnetic_properties_file")
     IN  /\ props' = r.obj
         /\ propsCall' = Called("MagneticProperties", <<>>, r)
         /\ last' = Called("MagneticProperties", <<>>, r)
         /\ pc' = StepPc(pc, r.raised)
         /\ trace' = Completed(trace, "MagneticProperties", r.raised)
  /\ UNCHANGED <<mesh, solver, meshCall, solverCall, kernelCalls, output, promotion,
                 configFile, config>>

IscimlSolver ==
  /\ pc = "MagneticAdjointSolver"
  /\ \E B \in BFields :
       LET r == IF "receiver_locations_file" \in DOMAIN config[1]
                  THEN MagneticAdjointSolver(config[1].receiver_locations_file,
                                             B[1], B[2], B[3])
                  ELSE KeyError("receiver_locations_file")
       IN  /\ solver' = r.obj
           /\ solverCall' = Called("MagneticAdjointSolver", <<>>, r)
           /\ last' = Called("MagneticAdjointSolver", <<>>, r)
           /\ pc' = StepPc(pc, r.raised)
           /\ trace' = Completed(trace, "MagneticAdjointSolver", r.raised)
  /\ UNCHANGED <<mesh, props, meshCall, propsCall, kernelCalls, output, promotion,
                 configFile, config>>

IscimlSolve ==
  /\ pc = "solve"
  /\ \E mig_data \in KernelReturns :
       LET r == solve(solver[1], mesh[1], props[1], mig_data, promotion)
       IN  /\ mesh' = Some(r.mesh)
           /\ props' = Some(r.magnetic_properties)
           /\ solver' = Some(r.self)
           /\ kernelCalls' = kernelCalls \o r.result.calls
           /\ output' = r.result.ret
           /\ last' = Called("solve", <<mig_data>>, r.result)
           /\ pc' = StepPc(pc, r.result.raised)
           /\ trace' = Completed(trace, "solve", r.result.raised)
  /\ UNCHANGED <<meshCall, propsCall, solverCall, promotion, configFile, config>>

NextIsciml ==
  \/ IscimlConfig
  \/ IscimlMesh
  \/ IscimlCentroids
  \/ IscimlVolumes
  \/ IscimlProperties
  \/ IscimlSolver
  \/ IscimlSolve

SpecIsciml ==
  InitIsciml /\ [][NextIsciml]_vars

----------------------------------------------------------------------------
(* Properties *)

(* the last call was a solve that reached the kernel and returned *)
SolveReturned ==
  last.op = "solve" /\ ~last.raised

(* the arguments of the latest kernel invocation *)
LastCall ==
  kernelCalls[Len(kernelCalls)]

(* C1, as stated: when solve invokes the kernel for a mesh of ncells cells (within
   the capacity) and a property table of ncells rows, positions [0, ncells) of KXt,
   KYt, KZt, ctet, vtet hold kx, ky, kz, centroids, volumes, rho_sus holds
   susceptibility * Bv, and positions [ncells, capacity) of all six are zero. *)
C1_BuffersHoldSourceValues ==
  (SolveReturned /\ props[1].n_cells = mesh[1].ncells) =>
    LET c == LastCall
        m == mesh[1]
        q == props[1]
    IN  /\ \A i \in 1..m.ncells :
             /\ c.KXt[i] = q.kx[i]
             /\ c.KYt[i] = q.ky[i]
             /\ c.KZt[i] = q.kz[i]
             /\ c.ctet[i] = m.centroids[1][i]
             /\ c.vtet[i] = m.volumes[1][i]
             /\ c.rho_sus[i] = RMul(q.susceptibility[1][i], solver[1].Bv)
        /\ \A i \in (m.ncells + 1)..CellCapacity :
             /\ c.KXt[i] = R(0) /\ c.KYt[i] = R(0) /\ c.KZt[i] = R(0)
             /\ c.ctet[i] = <<R(0), R(0), R(0)>>
             /\ c.vtet[i] = R(0)
             /\ c.rho_sus[i] = R(0)

(* C1, amended: the same, with every value as rounded to float32 by the copy into
   its buffer, and rho_sus the product of the rounded susceptibility and Bv in the
   precision numpy computes it in (float32, Bv rounded to float32, under value-based
   casting; float64 under NEP 50).  Only rho_sus is scaled. *)
C1_BuffersHoldFloat32Values ==
  (SolveReturned /\ props[1].n_cells = mesh[1].ncells) =>
    LET c == LastCall
        m == mesh[1]
        q == props[1]
        Bv == solver[1].Bv
    IN  /\ \A i \in 1..m.ncells :
             /\ c.KXt[i] = F32(q.kx[i])
             /\ c.KYt[i] = F32(q.ky[i])
             /\ c.KZt[i] = F32(q.kz[i])
             /\ c.ctet[i] = [j \in 1..3 |-> F32(m.centroids[1][i][j])]
             /\ c.vtet[i] = F32(m.volumes[1][i])
             /\ c.rho_sus[i] =
                  IF promotion = "legacy"
                    THEN F32(RMul(F32(q.susceptibility[1][i]), F32(Bv)))
                    ELSE RMul(F32(q.susceptibility[1][i]), Bv)
        /\ \A i \in (m.ncells + 1)..CellCapacity :
             /\ c.KXt[i] = R(0) /\ c.KYt[i] = R(0) /\ c.KZt[i] = R(0)
             /\ c.ctet[i] = <<R(0), R(0), R(0)>>
             /\ c.vtet[i] = R(0)
             /\ c.rho_sus[i] = R(0)

(* C1, witness: a kernel invocation with a partly filled buffer whose float32 copy
   of a volume differs from the volume *)
C1_Witness ==
  /\ SolveReturned
  /\ props[1].n_cells = mesh[1].ncells
  /\ 0 < mesh[1].ncells /\ mesh[1].ncells < CellCapacity
  /\ LastCall.vtet[1] # mesh[1].volumes[1][1]

(* C2: the tetrahedron buffer given to the kernel is the mesh's connectivity plus 1
   in rows [0, ncells) and zero in rows [ncells, capacity); with 0-based valid
   indices every populated entry is in 1..npts and names a populated row of the node
   buffer; the mesh's own connectivity is still the one read from the file. *)
C2_TetsShiftedByOne ==
  SolveReturned =>
    LET c == LastCall
        m == mesh[1]
    IN  /\ \A i \in 1..m.ncells : \A j \in 1..4 :
             c.tets[i][j] = m.tet_nodes[i][j] + 1
        /\ \A i \in (m.ncells + 1)..CellCapacity : c.tets[i] = <<0, 0, 0, 0>>
        /\ (\A i \in 1..m.ncells : \A j \in 1..4 : m.tet_nodes[i][j] \in 0..(m.npts - 1))
             => \A i \in 1..m.ncells : \A j \in 1..4 :
                  /\ c.tets[i][j] \in 1..m.npts
                  /\ c.nodes[c.tets[i][j]] = [k \in 1..3 |-> F32(m.nodes[c.tets[i][j]][k])]
        /\ m.tet_nodes = VtkFiles[m.vtk_file_name].cells

(* C2, witness: a kernel invocation for a mesh with cells, the buffer partly filled *)
C2_Witness ==
  /\ SolveReturned
  /\ mesh[1].ncells = 2
  /\ LastCall.tets[2] # <<0, 0, 0, 0>>

(* C3: solve returns the first ncells entries of the kernel's buffer, in order, and
   gives the kernel the true counts ncells and n_obs and the flags ismag = true,
   istensor = false. *)
C3_TruncatedResult ==
  SolveReturned =>
    LET c == LastCall
        m == mesh[1]
        mig_data == last.args[1]
    IN  /\ IsSome(output)
        /\ Len(output[1]) = m.ncells
        /\ \A i \in 1..m.ncells : output[1][i] = mig_data[i]
        /\ c.ncells = Len(VtkFiles[m.vtk_file_name].cells)
        /\ c.n_obs = CsvFiles[solver[1].reciever_file_name].table.shape[1]
        /\ c.ismag = TRUE
        /\ c.istensor = FALSE

(* C3, witness: a returned result shorter than the kernel's buffer *)
C3_Witness ==
  /\ SolveReturned
  /\ Len(output[1]) = 2
  /\ Len(last.args[1]) > 2
  /\ LastCall.n_obs = 1

(* the numpy array the properties were loaded from, and its entry (i, j) *)
LoadedFrom(call) ==
  NpyFiles[call.args[1]].array

ColumnsOf(a) ==
  IF Len(a.shape) = 1 THEN 1 ELSE a.shape[2]

EntryOf(a, i, j) ==
  IF Len(a.shape) = 1 THEN a.data[i] ELSE a.data[i][j + 1]

(* C4: for a table of N rows and C >= 1 columns (1-D: C = 1) the constructor yields
   susceptibility, kx, ky, kz of length N in row order: susceptibility is column 0,
   and axis j is column j when C > j and the default repeated N times when C <= j;
   nothing else (columns 4 and up) enters the result. *)
C4_ColumnsOrDefaults ==
  (propsCall.op = "MagneticProperties" /\ ~propsCall.raised
     /\ ColumnsOf(LoadedFrom(propsCall)) >= 1) =>
    LET a == LoadedFrom(propsCall)
        N == a.shape[1]
        C == ColumnsOf(a)
        q == props[1]
        axis == <<q.kx, q.ky, q.kz>>
    IN  /\ IsSome(q.susceptibility)
        /\ Len(q.susceptibility[1]) = N
        /\ \A i \in 1..N : q.susceptibility[1][i] = EntryOf(a, i, 0)
        /\ \A j \in 1..3 :
             /\ Len(axis[j]) = N
             /\ \A i \in 1..N :
                  axis[j][i] = IF C > j THEN EntryOf(a, i, j) ELSE propsCall.args[j + 1]

(* C4, witness: a 1-D table of several rows, every axis defaulted *)
C4_Witness ==
  /\ propsCall.op = "MagneticProperties" /\ ~propsCall.raised
  /\ Len(LoadedFrom(propsCall).shape) = 1
  /\ LoadedFrom(propsCall).shape[1] >= 2
  /\ props[1].ky = Full(LoadedFrom(propsCall).shape[1], propsCall.args[3])

(* C5, as stated: constructing MagneticProperties from a readable file raises
   whenever the loaded array has zero rows, and whenever it has no column 0; no
   object is produced in either case. *)
C5_EmptyOrNoSusceptibilityRaises ==
  (propsCall.op = "MagneticProperties"
     /\ NpyFiles[propsCall.args[1]].exists /\ NpyFiles[propsCall.args[1]].readable
     /\ LET a == LoadedFrom(propsCall)
        IN  \/ Len(a.shape) = 0
            \/ a.shape[1] = 0
            \/ ColumnsOf(a) = 0)
    => (propsCall.raised /\ ~IsSome(props))

(* the steps of one run, in the order the claim gives them *)
RunOrder ==
  <<"config", "Mesh", "get_centroids", "get_volumes", "MagneticProperties",
    "MagneticAdjointSolver", "solve">>

(* the file a step of the run reads, and whether it is there *)
StepFile(op) ==
  CASE op = "config" -> [path |-> ConfigPath, exists |-> configFile.exists]
    [] op = "Mesh" /\ "vtk_file" \in DOMAIN config[1] ->
         [path |-> config[1].vtk_file, exists |-> VtkFiles[config[1].vtk_file].exists]
    [] op = "MagneticProperties" /\ "magnetic_properties_file" \in DOMAIN config[1] ->
         [path |-> config[1].magnetic_properties_file,
          exists |-> NpyFiles[config[1].magnetic_properties_file].exists]
    [] op = "MagneticAdjointSolver" /\ "receiver_locations_file" \in DOMAIN config[1] ->
         [path |-> config[1].receiver_locations_file,
          exists |-> CsvFiles[config[1].receiver_locations_file].exists]
    [] OTHER -> [path |-> "", exists |-> TRUE]

(* C6: in one run the kernel is invoked at most once, and only after the config was
   read, the mesh loaded, centroids and volumes derived, the properties and the
   receivers loaded, in that order; a step that fails raises there (a missing file's
   error names its path), the run ends, no later step runs and the kernel is not
   invoked. *)
C6_OrderedFailStop ==
  /\ Len(kernelCalls) <= 1
  /\ trace = SubSeq(RunOrder, 1, Len(trace))
  /\ (Len(kernelCalls) = 1 => (Len(trace) = 7 /\ pc = "done"))
  /\ (pc \notin {"failed", "done"} =>
        pc = IF trace = <<>> THEN "config" ELSE NextStatement(RunOrder[Len(trace)]))
  /\ (last.raised <=> pc = "failed")
  /\ pc = "failed" =>
       /\ last.op = RunOrder[Len(trace) + 1]
       /\ kernelCalls = <<>>
       /\ ~ENABLED NextIsciml
       /\ ~StepFile(last.op).exists =>
            (last.err.type = "ValueError" /\ last.err.path = StepFile(last.op).path)

(* C6, witness: a run that ended at the properties step, on a missing file, after
   the mesh, the centroids and the volumes *)
C6_Witness ==
  /\ pc = "failed"
  /\ last.op = "MagneticProperties"
  /\ last.err.path = "missing.npy"
  /\ Len(trace) = 4

(* the cell or the observation count exceeds its buffer, all else being in order *)
OverCapacity ==
  /\ IsSome(mesh) /\ IsSome(props) /\ IsSome(solver)
  /\ \/ mesh[1].ncells > CellCapacity
     \/ solver[1].receiver_locations.shape[1] > ObsCapacity
  /\ IsSome(mesh[1].centroids) /\ IsSome(mesh[1].volumes)
  /\ IsSome(props[1].susceptibility)
  /\ props[1].n_cells \in {mesh[1].ncells, 1}

(* C7, as stated: when the cell count exceeds the cell capacity or the observation
   count the observation capacity, solve raises no error and the kernel is still
   invoked. *)
C7_OverflowIsSilent ==
  (OverCapacity /\ last.op = "solve") => (~last.raised /\ IsSome(output))

(* C7, amended: in that case solve raises ValueError while packing the buffers
   (numpy refuses the oversized source), nothing is dropped or written out of
   bounds, and the kernel is not invoked. *)
C7_OverflowRaises ==
  OverCapacity =>
    /\ kernelCalls = <<>>
    /\ ~IsSome(output)
    /\ last.op = "solve" => (last.raised /\ last.err.type = "ValueError")

(* C7, witness: solve called with more cells than the capacity *)
C7_Witness ==
  /\ OverCapacity
  /\ mesh[1].ncells > CellCapacity
  /\ props[1].n_cells = mesh[1].ncells
  /\ last.op = "solve"

(* vectors of rationals: difference, cross and dot product *)
VSub(p, q) ==
  [k \in 1..3 |-> RSub(p[k], q[k])]

VCross(u, v) ==
  <<RSub(RMul(u[2], v[3]), RMul(u[3], v[2])),
    RSub(RMul(u[3], v[1]), RMul(u[1], v[3])),
    RSub(RMul(u[1], v[2]), RMul(u[2], v[1]))>>

VDot(u, v) ==
  RAdd(RAdd(RMul(u[1], v[1]), RMul(u[2], v[2])), RMul(u[3], v[3]))

(* |(P4 - P1) . ((P2 - P1) x (P3 - P1))| / 6 for the vertices of tet, in stored order *)
TripleProductVolume(nodes, tet) ==
  LET P1 == nodes[tet[1] + 1]
      P2 == nodes[tet[2] + 1]
      P3 == nodes[tet[3] + 1]
      P4 == nodes[tet[4] + 1]
  IN  RDiv(RAbs(VDot(VSub(P4, P1), VCross(VSub(P2, P1), VSub(P3, P1)))), R(6))

(* the four vertices lie in one of the planes a x + b y + c z = d, a, b, c in -1..1 *)
InOnePlane(nodes, tet) ==
  \E a \in -1..1, b \in -1..1, c \in -1..1 :
    /\ <<a, b, c>> # <<0, 0, 0>>
    /\ \A j \in 2..4 :
         VDot(<<R(a), R(b), R(c)>>, VSub(nodes[tet[j] + 1], nodes[tet[1] + 1])) = R(0)

Permutations4 ==
  {f \in [1..4 -> 1..4] : \A i, j \in 1..4 : i # j => f[i] # f[j]}

(* C8: when get_volumes returns it has stored one value per tetrahedron, in order,
   each the absolute triple product of the stored vertices over 6: never negative,
   zero for coplanar vertices, the same for all 24 orders of the four vertices, 1/6
   for the unit tetrahedron. *)
C8_VolumeFormula ==
  (last.op = "get_volumes" /\ ~last.raised) =>
    LET m == mesh[1]
        vol == m.volumes[1]
    IN  /\ Len(vol) = Len(m.tet_nodes)
        /\ \A i \in 1..Len(vol) :
             /\ vol[i] = TripleProductVolume(m.nodes, m.tet_nodes[i])
             /\ RNonNeg(vol[i])
             /\ InOnePlane(m.nodes, m.tet_nodes[i]) => vol[i] = R(0)
             /\ \A f \in Permutations4 :
                  get_volumes([m EXCEPT !.tet_nodes =
                                 <<[j \in 1..4 |-> m.tet_nodes[i][f[j]]]>>]).self.volumes[1]
                    = <<vol[i]>>
        /\ m.vtk_file_name = "unit.vtk" => vol = <<Rat(1, 6)>>

(* C8, witness: volumes computed for a mesh holding a flat and a solid tetrahedron,
   the solid one stored with negative orientation *)
C8_Witness ==
  /\ IsSome(mesh) /\ IsSome(mesh[1].volumes)
  /\ last.op = "get_volumes"
  /\ mesh[1].ncells = 2
  /\ mesh[1].volumes[1][1] = R(0)
  /\ mesh[1].volumes[1][2] = Rat(1, 6)
  /\ SignedTetVolume(mesh[1].nodes, mesh[1].tet_nodes[2]) = Rat(-1, 6)

(* what construction fixed: the mesh without its two caches *)
MeshCore(m) ==
  [nodes |-> m.nodes, tet_nodes |-> m.tet_nodes, npts |-> m.npts, ncells |-> m.ncells]

(* C9: a call of get_centroids, get_volumes or solve changes neither the mesh's
   nodes, connectivity, npts, ncells nor the properties; get_centroids changes only
   the centroids cache and get_volumes only the volumes cache, and a repeated call
   leaves the cache as it was. *)
C9_MethodsKeepObjects ==
  [][(GetCentroids \/ GetVolumes \/ Solve) =>
       /\ IsSome(mesh') /\ MeshCore(mesh'[1]) = MeshCore(mesh[1])
       /\ props' = props
       /\ GetCentroids =>
            /\ mesh'[1].volumes = mesh[1].volumes
            /\ IsSome(mesh[1].centroids) => mesh'[1].centroids = mesh[1].centroids
       /\ GetVolumes =>
            /\ mesh'[1].centroids = mesh[1].centroids
            /\ IsSome(mesh[1].volumes) => mesh'[1].volumes = mesh[1].volumes
       /\ Solve => mesh' = mesh]_vars

(* C9, witness: two solves have reached the kernel, the caches recomputed between
   or after them *)
C9_Witness ==
  /\ Len(kernelCalls) = 2
  /\ last.op \in {"get_centroids", "get_volumes"}
  /\ IsSome(props) /\ props[1].n_cells = mesh[1].ncells

(* the property row count is neither the cell count nor 1 *)
RowsMismatch ==
  /\ IsSome(mesh) /\ IsSome(props)
  /\ props[1].n_cells \notin {mesh[1].ncells, 1}

(* C10: the kernel is invoked only if the property row count is the cell count or 1
   (one row is broadcast to every cell); with any other row count solve raises while
   packing and the kernel is never invoked. *)
C10_RowsMatchOrBroadcast ==
  /\ RowsMismatch => (kernelCalls = <<>> /\ (last.op = "solve" => last.raised))
  /\ SolveReturned =>
       /\ props[1].n_cells \in {mesh[1].ncells, 1}
       /\ props[1].n_cells = 1 =>
            \A i \in 1..mesh[1].ncells :
              /\ LastCall.KXt[i] = F32(props[1].kx[1])
              /\ LastCall.KYt[i] = F32(props[1].ky[1])
              /\ LastCall.KZt[i] = F32(props[1].kz[1])

(* C10, witness: solve raised for a table of two rows and a mesh of one cell whose
   centroids and volumes were there *)
C10_Witness ==
  /\ RowsMismatch
  /\ props[1].n_cells = 2 /\ mesh[1].ncells = 1
  /\ IsSome(mesh[1].centroids) /\ IsSome(mesh[1].volumes)
  /\ IsSome(props[1].susceptibility)
  /\ last.op = "solve" /\ last.raised /\ last.err.type = "ValueError"

====
